---- MODULE Spec2Model ----
(***************************************************************************)
(* A model of pixi-essentials' TransformerHandle                           *)
(* (packages/transformer/src/TransformerHandle.ts): the pointer state      *)
(* machine of the handles of one transformer and their lazy redraw.        *)
(*                                                                         *)
(* A handle object is one TransformerHandle instance.  Its callbacks       *)
(* onHandleDelta and onHandleCommit are the functions the constructor      *)
(* requires; every invocation is recorded in lastEvent.                    *)
(*                                                                         *)
(* The React bindings are modelled next to it: the state of the            *)
(* useNestedSelection hook and applyProps of the Transformer component.    *)
(***************************************************************************)
EXTENDS Integers, Sequences, FiniteSets, TLC

\* ------------------------------------------------------------------ bounds

\* Global pointer positions are the points (c, MaxCoord + 1 - c), c in 1..MaxCoord.
MaxCoord == 2

\* The number of past events of the observed handle that hist keeps.
HistLen == 4

\* The largest number of display objects in a group.
MaxGroup == 2

\* ------------------------------------------------------------------ values

NULL == "null"

\* The TransformerHandle instances of the transformer.
HandleObjs == {"h1", "h2"}

\* The handle whose events hist records.
Observed == "h1"

\* The containers transformer.stage can be.
Stages == {"stageA", "stageB"}

\* What a globalpointermove listener can be added to: a stage or the handle itself.
Targets == Stages \cup HandleObjs

\* new Point(): (0, 0)
Point0 == [x |-> 0, y |-> 0]

\* e.data.global of a pointer event
GlobalPositions == {[x |-> c, y |-> MaxCoord + 1 - c] : c \in 1..MaxCoord}

\* undefined: the value of an optional style field that is not given (no number a
\* caller passes).
UNDEF == -1

\* The Handle names of the transformer.
CornerHandles == {"topLeft", "topRight", "bottomLeft", "bottomRight"}
EdgeHandles == {"topCenter", "bottomCenter", "middleLeft", "middleRight"}
HandleNames ==
  CornerHandles \cup EdgeHandles \cup {"rotator", "skewHorizontal", "skewVertical"}

\* The fields of ITransformerHandleStyle.
StyleFields == {"color", "outlineColor", "outlineThickness", "radius", "shape",
                "glowColor", "glowIntensity", "rotatorIconColor"}

\* Units: colors are 24-bit numbers, radius and outlineThickness are in tenths of a
\* pixel, glowIntensity in hundredths.
White == 16777215
Indigo == 6514417
DefaultThickness == 25
DefaultRadius == 70
DefaultGlowIntensity == 15

\* DEFAULT_HANDLE_STYLE; rotatorIconColor is not in it, so it reads as undefined.
DEFAULT_HANDLE_STYLE ==
  [color |-> White, outlineColor |-> Indigo, outlineThickness |-> DefaultThickness,
   radius |-> DefaultRadius, shape |-> "circle", glowColor |-> Indigo,
   glowIntensity |-> DefaultGlowIntensity, rotatorIconColor |-> UNDEF]

\* The values a caller gives to each field.
FieldValues ==
  [color |-> {White, 16711680, 0},
   outlineColor |-> {Indigo, 255, 0},
   outlineThickness |-> {DefaultThickness, 10, 0},
   radius |-> {DefaultRadius, 72, 0},
   shape |-> {"circle", "square"},
   glowColor |-> {Indigo, 65280, 0, UNDEF},
   glowIntensity |-> {DefaultGlowIntensity, 50, 0, UNDEF},
   rotatorIconColor |-> {255, UNDEF}]

\* The partial styles a caller passes: no field, or one field with one of its values.
PartialStyles ==
  {[g \in {} |-> UNDEF]} \cup UNION {{[g \in {f} |-> v] : v \in FieldValues[f]} : f \in StyleFields}

\* Object.assign({}, DEFAULT_HANDLE_STYLE, value)
MergeStyle(value) ==
  [f \in StyleFields |-> IF f \in DOMAIN value THEN value[f] ELSE DEFAULT_HANDLE_STYLE[f]]

\* null, for this._rotatorSprite and this._rotatorKey
NoSprite == [texture |-> [url |-> <<>>], width |-> 0, height |-> 0]
NoKey == <<>>

VARIABLES
  stage,              \* transformer.stage, NULL when the transformer has none
  pointerDown,        \* [HandleObjs -> BOOLEAN]   this._pointerDown
  pointerDragging,    \* [HandleObjs -> BOOLEAN]   this._pointerDragging
  pointerPosition,    \* [HandleObjs -> Point]     this._pointerPosition
  pointerMoveTarget,  \* [HandleObjs -> Targets \cup {NULL}]  this._pointerMoveTarget
  listeners,          \* [Targets -> [HandleObjs -> Nat]]: how many times h.onPointerMove
                      \* is registered for "globalpointermove" on the target
  lastEvent,          \* the event handled last and what its handler did
  hist,               \* the last HistLen events of the Observed handle
  handle,             \* [HandleObjs -> HandleNames]  this._handle
  style,              \* [HandleObjs -> style]        this._style
  dirty,              \* [HandleObjs -> BOOLEAN]      this._dirty
  rotatorSprite,      \* [HandleObjs -> sprite or NoSprite]  this._rotatorSprite
  rotatorKey,         \* [HandleObjs -> key or NoKey]        this._rotatorKey
  children,           \* [HandleObjs -> Seq(sprite)]: the handle's child display objects
  rotatorTextureCache,\* the static TransformerHandle._rotatorTextureCache: key -> texture
  lastOp,             \* [HandleObjs -> the operation applied last to the handle's appearance]
  lastCall,           \* the appearance operation called last and what it issued
  group,              \* the group array useNestedSelection was rendered with last
  hookOptions,        \* the options useNestedSelection was mounted with
  focusedElementIndex,\* the hook's focusedElementIndex state
  focusedElement,     \* the hook's focusedElement state, NULL for null
  lastHook,           \* the hook operation called last and the state it found
  props,              \* the props applied last to the Transformer component
  instance,           \* the fields of the component's Transformer instance
  subscribed,         \* [event name -> the handlers listening on the instance]
  lastApply           \* the last applyProps call: its oldProps, newProps and outcome

pointerVars == <<stage, pointerDown, pointerDragging, pointerPosition,
                 pointerMoveTarget, listeners, lastEvent, hist>>

renderVars == <<handle, style, dirty, rotatorSprite, rotatorKey, children,
                rotatorTextureCache, lastOp, lastCall>>

hookVars == <<group, hookOptions, focusedElementIndex, focusedElement, lastHook>>

propVars == <<props, instance, subscribed, lastApply>>

reactVars == <<hookVars, propVars>>

vars == <<pointerVars, renderVars, reactVars>>

\* ------------------------------------------------------------------ the event substrate

\* target.addEventListener("globalpointermove", h.onPointerMove): one more registration.
AddEventListener(ls, target, h) ==
  [ls EXCEPT ![target][h] = @ + 1]

\* target.removeEventListener("globalpointermove", h.onPointerMove): the emitter drops
\* every registration of that function.
RemoveEventListener(ls, target, h) ==
  [ls EXCEPT ![target][h] = 0]

\* The targets on which h.onPointerMove is registered.
SubscribedTargets(h) == {t \in Targets : listeners[t][h] > 0}

\* What a handler reports about one event; removedFrom is the target it removed the
\* handle's listener from, NULL if it removed none.
Event(type, h, global, deltaCalls, commitCalls, stopped) ==
  [type |-> type, handle |-> h, global |-> global, deltaCalls |-> deltaCalls,
   commitCalls |-> commitCalls, propagationStopped |-> stopped, removedFrom |-> NULL]

NoEvent == Event("none", NULL, Point0, <<>>, 0, FALSE)

\* hist with one more event of handle h: the operation, what the flags were before it
\* and how often it invoked each callback.
Remember(h, op, deltas, commits) ==
  IF h # Observed THEN hist
  ELSE LET all == Append(hist, [op |-> op, wasDown |-> pointerDown[h],
                                wasDragging |-> pointerDragging[h],
                                deltas |-> deltas, commits |-> commits])
       IN IF Len(all) > HistLen THEN Tail(all) ELSE all

\* ------------------------------------------------------------------ state after construction

\* The pointer fields the constructor sets, and no listener registered anywhere.
ConstructedPointer ==
  /\ stage \in Stages \cup {NULL}
  /\ pointerDown = [h \in HandleObjs |-> FALSE]
  /\ pointerDragging = [h \in HandleObjs |-> FALSE]
  /\ pointerPosition = [h \in HandleObjs |-> Point0]
  /\ pointerMoveTarget = [h \in HandleObjs |-> NULL]
  /\ listeners = [t \in Targets |-> [h \in HandleObjs |-> 0]]
  /\ lastEvent = NoEvent
  /\ hist = <<>>

\* ------------------------------------------------------------------ pointer handlers

\* The transformer's stage is replaced or cleared by its owner.
SetStage(s) ==
  /\ s # stage
  /\ stage' = s
  /\ lastEvent' = Event("stage", NULL, Point0, <<>>, 0, FALSE)
  /\ UNCHANGED <<pointerDown, pointerDragging, pointerPosition, pointerMoveTarget,
                 listeners, hist, renderVars, reactVars>>

\* Mutant: the listener is added to the handle itself whatever the stage.
MoveTargetSelf(h) == h

\* The target onPointerDown subscribes to: transformer.stage || this.
MoveTarget(h) == IF stage # NULL THEN stage ELSE h

\* Mutant: the listener is removed from the target a pointer-down would pick now.
RemovalTargetCurrent(h) == IF stage # NULL THEN stage ELSE h

\* The target onPointerDown and onPointerUp remove the listener from.
RemovalTarget(h) == pointerMoveTarget[h]

\* The target a handler that finds _pointerMoveTarget set removes the listener from.
RemovedFrom(h) == IF pointerMoveTarget[h] # NULL THEN RemovalTarget(h) ELSE NULL

\* Mutant: onPointerDown adds its registration without removing the old one.
DownListenersAdded(h) == AddEventListener(listeners, MoveTarget(h), h)

\* The listeners after onPointerDown: the old registration removed, the new one added.
DownListeners(h) ==
  LET removed == IF pointerMoveTarget[h] # NULL
                 THEN RemoveEventListener(listeners, RemovalTarget(h), h)
                 ELSE listeners
  IN AddEventListener(removed, MoveTarget(h), h)

\* _pointerDragging after onPointerDown.
DownDragging(h) == FALSE

OnPointerDown(h) ==
  /\ pointerDown' = [pointerDown EXCEPT ![h] = TRUE]
  /\ pointerDragging' = [pointerDragging EXCEPT ![h] = DownDragging(h)]
  /\ pointerMoveTarget' = [pointerMoveTarget EXCEPT ![h] = MoveTarget(h)]
  /\ listeners' = DownListeners(h)
  /\ lastEvent' = [Event("pointerdown", h, Point0, <<>>, 0, TRUE)
                     EXCEPT !.removedFrom = RemovedFrom(h)]
  /\ hist' = Remember(h, "down", 0, 0)
  /\ UNCHANGED <<stage, pointerPosition, renderVars, reactVars>>

\* Mutant: the first move reports a delta too.
DragStartDeltaCallsReported(h, global) == <<global>>

\* onDragStart: the calls of onHandleDelta it makes.
DragStartDeltaCalls(h, global) == <<>>

\* Mutant: the callback receives the difference from the recorded position.
DragDeltaCallsDifference(h, global) ==
  << [x |-> global.x - pointerPosition[h].x, y |-> global.y - pointerPosition[h].y] >>

\* onDrag: the calls of onHandleDelta it makes, each with its argument.
DragDeltaCalls(h, global) == <<global>>

\* Mutant: onPointerMove handles a move whether the handle is down or not.
MoveIgnoredNever(h) == FALSE

\* if (!this._pointerDown) return
MoveIgnored(h) == ~pointerDown[h]

\* The event types that reach onPointerMove: "pointermove" through this.onpointermove,
\* "globalpointermove" through a registration on a target.
MoveTypes(h) ==
  {"pointermove"} \cup (IF SubscribedTargets(h) # {} THEN {"globalpointermove"} ELSE {})

OnPointerMove(h, type, global) ==
  /\ type \in MoveTypes(h)
  /\ IF MoveIgnored(h)
     THEN /\ lastEvent' = Event(type, h, global, <<>>, 0, FALSE)
          /\ hist' = Remember(h, "move", 0, 0)
          /\ UNCHANGED <<pointerDragging, pointerPosition>>
     ELSE LET calls == IF pointerDragging[h] THEN DragDeltaCalls(h, global)
                       ELSE DragStartDeltaCalls(h, global)
          IN /\ pointerPosition' = [pointerPosition EXCEPT ![h] = global]
             /\ pointerDragging' = [pointerDragging EXCEPT ![h] = TRUE]
             /\ lastEvent' = Event(type, h, global, calls, 0, TRUE)
             /\ hist' = Remember(h, "move", Len(calls), 0)
  /\ UNCHANGED <<stage, pointerDown, pointerMoveTarget, listeners, renderVars, reactVars>>

\* The channels through which one move of the pointer reaches onPointerMove: the
\* handle's own onpointermove when the pointer is over the handle, and the
\* globalpointermove listener while one is registered.
MoveChannels(h, over) ==
  (IF over THEN <<"pointermove">> ELSE <<>>)
    \o (IF SubscribedTargets(h) # {} THEN <<"globalpointermove">> ELSE <<>>)

\* The calls of onHandleDelta that n successive deliveries of one move event make,
\* the handle being down: the first delivery finds _pointerDragging as it is, every
\* further one finds it true.
DeliveredDeltaCalls(h, global, n) ==
  (IF pointerDragging[h] THEN DragDeltaCalls(h, global)
   ELSE DragStartDeltaCalls(h, global))
    \o (IF n > 1 THEN DragDeltaCalls(h, global) ELSE <<>>)

\* The pointer moves once: the event is delivered through every channel.
PointerMoved(h, global, over) ==
  LET n == Len(MoveChannels(h, over))
  IN /\ n > 0
     /\ IF MoveIgnored(h)
        THEN /\ lastEvent' = Event("physicalmove", h, global, <<>>, 0, FALSE)
             /\ hist' = Remember(h, "physicalmove", 0, 0)
             /\ UNCHANGED <<pointerDragging, pointerPosition>>
        ELSE LET calls == DeliveredDeltaCalls(h, global, n)
             IN /\ pointerPosition' = [pointerPosition EXCEPT ![h] = global]
                /\ pointerDragging' = [pointerDragging EXCEPT ![h] = TRUE]
                /\ lastEvent' = Event("physicalmove", h, global, calls, 0, TRUE)
                /\ hist' = Remember(h, "physicalmove", Len(calls), 0)
     /\ UNCHANGED <<stage, pointerDown, pointerMoveTarget, listeners, renderVars,
                    reactVars>>

\* Mutant: the drag ends without a commit.
DragEndCommitCallsNone(h) == 0

\* onDragEnd: the number of calls of onHandleCommit it makes.
DragEndCommitCalls(h) == 1

\* Mutant: a pointer-up leaves the registration in place.
UpListenersKept(h) == listeners

\* The listeners after onPointerUp.
UpListeners(h) ==
  IF pointerMoveTarget[h] # NULL
  THEN RemoveEventListener(listeners, RemovalTarget(h), h)
  ELSE listeners

\* Mutant: a pointer-up leaves _pointerDown as it is.
UpDownKept(h) == pointerDown[h]

\* _pointerDown after onPointerUp.
UpDown(h) == FALSE

OnPointerUp(h, type) ==
  /\ type \in {"pointerup", "pointerupoutside"}
  /\ LET commits == IF pointerDragging[h] THEN DragEndCommitCalls(h) ELSE 0
     IN /\ lastEvent' = [Event(type, h, Point0, <<>>, commits, FALSE)
                           EXCEPT !.removedFrom = RemovedFrom(h)]
        /\ hist' = Remember(h, "up", 0, commits)
  /\ pointerDragging' = [pointerDragging EXCEPT ![h] = FALSE]
  /\ pointerDown' = [pointerDown EXCEPT ![h] = UpDown(h)]
  /\ listeners' = UpListeners(h)
  /\ pointerMoveTarget' = [pointerMoveTarget EXCEPT ![h] = NULL]
  /\ UNCHANGED <<stage, pointerPosition, renderVars, reactVars>>


\* ------------------------------------------------------------------ appearance

\* A number or undefined that JavaScript's || and && treat as false.
Falsy(v) == v = 0 \/ v = UNDEF

\* a || b
OrElse(a, b) == IF Falsy(a) THEN b ELSE a

\* The drawing commands of PIXI.Graphics.  Lengths are in 1/420 of a pixel and alphas
\* in thousandths, so that every value the code computes is an integer.
Clear == [op |-> "clear"]
BeginFill(color, alpha) == [op |-> "beginFill", color |-> color, alpha |-> alpha]
EndFill == [op |-> "endFill"]
LineStyle(thickness, color) == [op |-> "lineStyle", thickness |-> thickness, color |-> color]
DrawCircle(x, y, r) == [op |-> "drawCircle", x |-> x, y |-> y, r |-> r]
DrawRoundedRect(x, y, w, h, r) ==
  [op |-> "drawRoundedRect", x |-> x, y |-> y, w |-> w, h |-> h, r |-> r]

\* style.radius || 7, in tenths of a pixel
BaseRadius(st) == OrElse(st.radius, DefaultRadius)

\* (style.glowIntensity || 0.15) * (1 - i / glowSteps) * 0.3, in thousandths
GlowAlpha(st, i) == OrElse(st.glowIntensity, DefaultGlowIntensity) * (3 - i)

\* One step of the pill glow: width 10, height 20, radius 5 and offset 2 * i, all times
\* scaleFactor = baseRadius / 7.
PillGlowStep(st, i) ==
  LET r == BaseRadius(st)
      width == 60 * r
      height == 120 * r
      radius == 30 * r
      offset == i * 12 * r
  IN << BeginFill(OrElse(st.glowColor, Indigo), GlowAlpha(st, i)),
        DrawRoundedRect(-(width \div 2) - offset, -(height \div 2) - offset,
                        width + offset * 2, height + offset * 2, radius + offset),
        EndFill >>

\* One step of the circle glow: baseRadius + (glowRadius - baseRadius) * (i / glowSteps)
\* with glowRadius = baseRadius * 1.5.
CircleGlowStep(st, i) ==
  << BeginFill(OrElse(st.glowColor, Indigo), GlowAlpha(st, i)),
     DrawCircle(0, 0, 7 * BaseRadius(st) * (6 + i)),
     EndFill >>

DrawGlowEffect(st, isPill) ==
  IF isPill THEN PillGlowStep(st, 0) \o PillGlowStep(st, 1) \o PillGlowStep(st, 2)
  ELSE CircleGlowStep(st, 0) \o CircleGlowStep(st, 1) \o CircleGlowStep(st, 2)

DrawCornerHandle(st) ==
  LET radius == 42 * BaseRadius(st)
  IN << BeginFill(White, 1000), DrawCircle(0, 0, radius), EndFill,
        LineStyle(OrElse(st.outlineThickness, DefaultThickness),
                  OrElse(st.outlineColor, Indigo)),
        DrawCircle(0, 0, radius) >>

DrawPillHandle(name, st) ==
  LET r == BaseRadius(st)
      isVertical == name \in {"topCenter", "bottomCenter"}
      width == (IF isVertical THEN 120 ELSE 60) * r
      height == (IF isVertical THEN 60 ELSE 120) * r
      radius == 30 * r
  IN << BeginFill(OrElse(st.color, White), 1000),
        DrawRoundedRect(-(width \div 2), -(height \div 2), width, height, radius),
        EndFill,
        LineStyle(OrElse(st.outlineThickness, DefaultThickness),
                  OrElse(st.outlineColor, Indigo)),
        DrawRoundedRect(-(width \div 2), -(height \div 2), width, height, radius) >>

\* n.toString(16): the hexadecimal digits of n, lower case.
HexDigit(d) ==
  <<"0", "1", "2", "3", "4", "5", "6", "7", "8", "9", "a", "b", "c", "d", "e", "f">>[d + 1]

RECURSIVE ToString16(_)
ToString16(n) ==
  IF n < 16 THEN <<HexDigit(n)>> ELSE Append(ToString16(n \div 16), HexDigit(n % 16))

RECURSIVE PadStart(_, _, _)
PadStart(str, len, fill) ==
  IF Len(str) >= len THEN str ELSE PadStart(<<fill>> \o str, len, fill)

\* "#" + color.toString(16).padStart(6, "0")
ColorHex(color) == <<"#">> \o PadStart(ToString16(color), 6, "0")

\* "#FFFFFF"
WhiteHexUpper == <<"#", "F", "F", "F", "F", "F", "F">>

\* Math.round(28 * (baseRadius / 7)); the radius is in tenths of a pixel, so the
\* product is never halfway between two integers.
SpriteSize(st) == (4 * BaseRadius(st) + 5) \div 10

\* `${colorHex}:${rotatorArrowColorHex}:${spriteSize}`
RotatorKeyOf(st) ==
  << ColorHex(OrElse(st.outlineColor, Indigo)),
     IF Falsy(st.rotatorIconColor) THEN WhiteHexUpper ELSE ColorHex(st.rotatorIconColor),
     SpriteSize(st) >>

\* createRotatorSVG: the data URL is determined by the two colors and
\* svgSize = Math.round(24 * Math.max(1, size / 28)).
CreateRotatorSVG(backgroundColor, arrowColor, size) ==
  << backgroundColor, arrowColor,
     IF size <= 28 THEN 24 ELSE (12 * size + 7) \div 14 >>

\* Texture.from(svgDataUrl)
TextureFrom(url) == [url |-> url]

\* new Sprite(texture) with its width and height set
NewSprite(texture, size) == [texture |-> texture, width |-> size, height |-> size]

\* What one call of draw() does to handle h: the commands it issues and the sprite,
\* key, children and texture cache it leaves.
NoDraw(h) ==
  [commands |-> <<>>, cache |-> rotatorTextureCache, sprite |-> rotatorSprite[h],
   key |-> rotatorKey[h], children |-> children[h],
   texturesCreated |-> 0, spritesAdded |-> 0, spritesRemoved |-> 0]

\* Mutant: the cache lookup never finds a texture.
IsCachedNever(key) == FALSE

\* Whether TransformerHandle._rotatorTextureCache.get(key) finds a texture.
IsCached(key) == key \in DOMAIN rotatorTextureCache

\* Mutant: every redraw of the rotator makes a new sprite.
NeedsNewSpriteAlways(h, key) == TRUE

\* this._rotatorKey !== key || !this._rotatorSprite
NeedsNewSprite(h, key) == rotatorKey[h] # key \/ rotatorSprite[h] = NoSprite

DrawRotatorHandle(h, st) ==
  LET key == RotatorKeyOf(st)
      size == SpriteSize(st)
      cached == IsCached(key)
      texture == IF cached THEN rotatorTextureCache[key]
                 ELSE TextureFrom(CreateRotatorSVG(key[1], key[2], size))
      cache == IF cached THEN rotatorTextureCache
               ELSE [k \in DOMAIN rotatorTextureCache \cup {key} |->
                       IF k = key THEN texture ELSE rotatorTextureCache[k]]
      old == rotatorSprite[h]
      base == [NoDraw(h) EXCEPT !.cache = cache,
                                !.texturesCreated = IF cached THEN 0 ELSE 1]
  IN IF NeedsNewSprite(h, key)
     THEN LET removed == IF old # NoSprite
                         THEN SelectSeq(children[h], LAMBDA c : c # old)
                         ELSE children[h]
              sprite == NewSprite(texture, size)
          IN [base EXCEPT !.sprite = sprite, !.key = key,
                          !.children = Append(removed, sprite),
                          !.spritesAdded = 1,
                          !.spritesRemoved = IF old # NoSprite THEN 1 ELSE 0]
     ELSE LET resized == [old EXCEPT !.width = size, !.height = size]
          IN [base EXCEPT !.sprite = resized,
                          !.children = [i \in DOMAIN children[h] |->
                                          IF children[h][i] = old THEN resized
                                          ELSE children[h][i]]]

\* Mutant: the glow is drawn for the rotator too.
GlowEnabledForRotator(name, st) ==
  /\ ~Falsy(st.glowColor)
  /\ ~Falsy(st.glowIntensity)
  /\ st.glowIntensity > 0

\* The condition under which draw() draws the glow.
GlowEnabled(name, st) ==
  /\ ~Falsy(st.glowColor)
  /\ ~Falsy(st.glowIntensity)
  /\ st.glowIntensity > 0
  /\ name # "rotator"

\* Mutant: only the left and right midpoints are pills.
IsPillHandleMiddleOnly(name) == name \in {"middleLeft", "middleRight"}

\* isMiddleHandle || isTopBottomHandle
IsPillHandle(name) == name \in EdgeHandles

Draw(h) ==
  LET name == handle[h]
      st == style[h]
      isPill == IsPillHandle(name)
      glow == IF GlowEnabled(name, st) THEN DrawGlowEffect(st, isPill) ELSE <<>>
  IN IF name = "rotator"
     THEN [DrawRotatorHandle(h, st) EXCEPT !.commands = <<Clear>> \o glow]
     ELSE IF isPill
     THEN [NoDraw(h) EXCEPT !.commands = <<Clear>> \o glow \o DrawPillHandle(name, st)]
     ELSE [NoDraw(h) EXCEPT !.commands = <<Clear>> \o glow \o DrawCornerHandle(st)]

\* No style options: the constructor's styleOpts = {}.
NoStyleOpts == [g \in {} |-> UNDEF]

\* What an appearance operation reports: the operation, the handle, the operation
\* applied to that handle before it, the partial style it was given, whether draw()
\* ran and what it issued.
Call(op, h, drew, d) ==
  [op |-> op, handle |-> h, previous |-> lastOp[h], value |-> NoStyleOpts,
   drew |-> drew,
   commands |-> d.commands,
   texturesCreated |-> d.texturesCreated, spritesAdded |-> d.spritesAdded,
   spritesRemoved |-> d.spritesRemoved]

NoCall ==
  [op |-> "none", handle |-> NULL, previous |-> "none", value |-> NoStyleOpts,
   drew |-> FALSE,
   commands |-> <<>>,
   texturesCreated |-> 0, spritesAdded |-> 0, spritesRemoved |-> 0]

\* Mutant: the style setter leaves _dirty as it was.
StyleSetterDirtyKept(h) == dirty[h]

\* _dirty after the handle setter and after the style setter.
HandleSetterDirty(h) == TRUE
StyleSetterDirty(h) == TRUE

\* set handle(handle)
SetHandle(h, name) ==
  /\ handle' = [handle EXCEPT ![h] = name]
  /\ dirty' = [dirty EXCEPT ![h] = HandleSetterDirty(h)]
  /\ lastOp' = [lastOp EXCEPT ![h] = "handle"]
  /\ lastCall' = Call("handle", h, FALSE, NoDraw(h))
  /\ UNCHANGED <<style, rotatorSprite, rotatorKey, children, rotatorTextureCache,
                 pointerVars, reactVars>>

\* Mutant: the style setter merges the partial style onto the current style.
AssignedStyleOntoCurrent(h, value) ==
  [f \in StyleFields |-> IF f \in DOMAIN value THEN value[f] ELSE style[h][f]]

\* this._style after the style setter is given value.
AssignedStyle(h, value) == MergeStyle(value)

\* set style(value)
SetStyle(h, value) ==
  /\ style' = [style EXCEPT ![h] = AssignedStyle(h, value)]
  /\ dirty' = [dirty EXCEPT ![h] = StyleSetterDirty(h)]
  /\ lastOp' = [lastOp EXCEPT ![h] = "style"]
  /\ lastCall' = [Call("style", h, FALSE, NoDraw(h)) EXCEPT !.value = value]
  /\ UNCHANGED <<handle, rotatorSprite, rotatorKey, children, rotatorTextureCache,
                 pointerVars, reactVars>>

\* Mutant: render() draws whatever _dirty says.
RenderDrawsAlways(h) == TRUE

\* Whether render() calls draw(), and _dirty after a render() that did.
RenderDraws(h) == dirty[h]
RenderedDirty(h) == FALSE

\* render(renderer)
Render(h) ==
  LET drew == RenderDraws(h)
      d == IF drew THEN Draw(h) ELSE NoDraw(h)
  IN /\ dirty' = [dirty EXCEPT ![h] = IF drew THEN RenderedDirty(h) ELSE @]
     /\ rotatorTextureCache' = d.cache
     /\ rotatorSprite' = [rotatorSprite EXCEPT ![h] = d.sprite]
     /\ rotatorKey' = [rotatorKey EXCEPT ![h] = d.key]
     /\ children' = [children EXCEPT ![h] = d.children]
     /\ lastOp' = [lastOp EXCEPT ![h] = "render"]
     /\ lastCall' = Call("render", h, drew, d)
     /\ UNCHANGED <<handle, style, pointerVars, reactVars>>

\* ------------------------------------------------------------------ useNestedSelection

\* The display objects a group is made of.
Elements == {"e1", "e2", "e3"}

\* The group arrays passed to the hook: up to MaxGroup distinct display objects.
Groups ==
  {g \in UNION {[1..n -> Elements] : n \in 0..MaxGroup} :
     \A i, j \in DOMAIN g : i # j => g[i] # g[j]}

\* The indices a caller passes: -1, the positions of a group and MaxGroup, which is
\* outside every group.
Indices == -1..MaxGroup

\* The options the hook is mounted with: none, or an initialFocusIndex.
NoHookOptions == [o \in {} |-> 0]
HookOptions == {NoHookOptions} \cup {[initialFocusIndex |-> i] : i \in Indices}

\* const { initialFocusIndex = 0 } = options
InitialFocusIndex(options) ==
  IF "initialFocusIndex" \in DOMAIN options THEN options.initialFocusIndex ELSE 0

\* array[index] || null, with the model's 1-based arrays
ElementAt(g, index) ==
  IF index >= 0 /\ index < Len(g) THEN g[index + 1] ELSE NULL

\* Mutant: the initial index is initialFocusIndex for an empty group too.
InitialIndexOfOptions(g, options) == InitialFocusIndex(options)

\* useState(group.length > 0 ? initialFocusIndex : -1)
InitialIndex(g, options) ==
  IF Len(g) > 0 THEN InitialFocusIndex(options) ELSE -1

\* useState(group.length > 0 ? group[initialFocusIndex] || null : null)
InitialElement(g, options) ==
  IF Len(g) > 0 THEN ElementAt(g, InitialFocusIndex(options)) ELSE NULL

\* The effect on [focusedElementIndex, group]: what it sets focusedElement to.
EffectElement(index, g) ==
  IF index >= 0 /\ index < Len(g) THEN g[index + 1] ELSE NULL

\* What a hook operation reports: the operation, its arguments, the option callback it
\* invoked and the state it found.
HookCall(op, index, element, callback) ==
  [op |-> op, index |-> index, element |-> element, callback |-> callback,
   indexBefore |-> focusedElementIndex, elementBefore |-> focusedElement,
   groupBefore |-> group]

\* The first render: the initial states, which the effect that runs after it leaves as
\* they are.
Mount(g, options) ==
  /\ group = g
  /\ hookOptions = options
  /\ focusedElementIndex = InitialIndex(g, options)
  /\ focusedElement = EffectElement(InitialIndex(g, options), g)
  /\ lastHook = [op |-> "mount", index |-> 0, element |-> NULL, callback |-> "none",
                 indexBefore |-> InitialIndex(g, options),
                 elementBefore |-> InitialElement(g, options),
                 groupBefore |-> g]

\* The component renders the hook with another group array: the index state stays and
\* the effect runs, because the array is a new one.
SetGroup(g) ==
  /\ group' = g
  /\ focusedElement' = EffectElement(focusedElementIndex, g)
  /\ lastHook' = HookCall("setGroup", 0, NULL, "none")
  /\ UNCHANGED <<focusedElementIndex, hookOptions, pointerVars, renderVars, propVars>>

\* Mutant: the effect does not run after a handler.
EffectRunsNever(index) == FALSE

\* Whether the effect runs after a handler set the index state: its dependencies are
\* [focusedElementIndex, group], and a handler leaves the group as it is.
EffectRuns(index) == index # focusedElementIndex

\* The states after a handler called setFocusedElementIndexState(index) and
\* setFocusedElement(element): the effect runs, and overrides the element, only if the
\* index changed.
SetFocus(index, element) ==
  /\ focusedElementIndex' = index
  /\ focusedElement' = IF EffectRuns(index) THEN EffectElement(index, group)
                       ELSE element
  /\ UNCHANGED <<group, hookOptions, pointerVars, renderVars, propVars>>

\* handleFocusChange, the onFocusChange prop of the transformer
HandleFocusChange(index, element) ==
  /\ SetFocus(index, element)
  /\ lastHook' = HookCall("onFocusChange", index, element, "onFocusChange")

\* handleElementFocused, the elementfocused prop of the transformer
HandleElementFocused(element, index) ==
  /\ SetFocus(index, element)
  /\ lastHook' = HookCall("elementfocused", index, element, "onElementFocused")

\* handleElementFocusCleared, the elementfocuscleared prop of the transformer
HandleElementFocusCleared ==
  /\ SetFocus(-1, NULL)
  /\ lastHook' = HookCall("elementfocuscleared", -1, NULL, "onElementFocusCleared")

\* setFocusedElementIndex, the state setter itself
SetFocusedElementIndex(index) ==
  /\ SetFocus(index, focusedElement)
  /\ lastHook' = HookCall("setFocusedElementIndex", index, NULL, "none")

\* Mutant: focusElement accepts every index.
FocusElementAcceptsAll(index) == TRUE

\* if (index >= 0 && index < group.length)
FocusElementAccepts(index) == index >= 0 /\ index < Len(group)

\* focusElement(index)
FocusElement(index) ==
  /\ IF FocusElementAccepts(index) THEN SetFocus(index, focusedElement)
     ELSE UNCHANGED <<focusedElementIndex, focusedElement, group, hookOptions,
                      pointerVars, renderVars, propVars>>
  /\ lastHook' = HookCall("focusElement", index, NULL, "none")

\* (focusedElementIndex + 1) % group.length; the indices here are -1 or more, where the
\* remainder of JavaScript and the modulus agree.
NextIndex(index, n) == (index + 1) % n

\* Mutant: focusPreviousElement does not wrap.
PreviousIndexUnwrapped(index, n) == index - 1

\* focusedElementIndex <= 0 ? group.length - 1 : focusedElementIndex - 1
PreviousIndex(index, n) == IF index <= 0 THEN n - 1 ELSE index - 1

\* focusNextElement()
FocusNextElement ==
  /\ IF Len(group) = 0
     THEN UNCHANGED <<focusedElementIndex, focusedElement, group, hookOptions,
                      pointerVars, renderVars, propVars>>
     ELSE SetFocus(NextIndex(focusedElementIndex, Len(group)), focusedElement)
  /\ lastHook' = HookCall("focusNextElement", 0, NULL, "none")

\* focusPreviousElement()
FocusPreviousElement ==
  /\ IF Len(group) = 0
     THEN UNCHANGED <<focusedElementIndex, focusedElement, group, hookOptions,
                      pointerVars, renderVars, propVars>>
     ELSE SetFocus(PreviousIndex(focusedElementIndex, Len(group)), focusedElement)
  /\ lastHook' = HookCall("focusPreviousElement", 0, NULL, "none")

\* The index clearFocus() sets.
ClearedIndex == -1

\* clearFocus()
ClearFocus ==
  /\ SetFocus(ClearedIndex, focusedElement)
  /\ lastHook' = HookCall("clearFocus", 0, NULL, "none")

\* ------------------------------------------------------------------ the Transformer component

\* undefined: what reading a prop that is not given yields.  Booleans are the strings
\* "true" and "false", so that a field can hold a boolean or undefined.
UNDEFINED == "undefined"

\* The boolean transform options of TransformerProps.
Flags == {"boxRotationEnabled", "boxScalingEnabled", "centeredScaling",
          "rotateEnabled", "scaleEnabled", "skewEnabled", "translateEnabled",
          "transientGroupTilt"}

\* HANDLER_TO_EVENT: the handler props applyProps hands to applyEventProps.
HANDLER_TO_EVENT ==
  [transformchange |-> "transformchange", transformcommit |-> "transformcommit"]

\* The handler props the bindings document, which are the names of the instance's
\* notifications too.
FocusHandlerProps == {"elementfocused", "elementfocuscleared", "onFocusChange"}
HandlerProps == DOMAIN HANDLER_TO_EVENT \cup FocusHandlerProps
EventNames == HandlerProps

\* The functions a caller passes as handlers, and the handle classes.
Handlers == {"f1", "f2"}
HandleConstructors == {"HandleA", "HandleB"}

\* The props of one render: none, or one prop with one of its values.
NoProps == [p \in {} |-> UNDEFINED]
PropBags ==
  {NoProps}
    \cup {[p \in {f} |-> v] : f \in Flags, v \in {"true", "false"}}
    \cup {[p \in {n} |-> f] : n \in HandlerProps, f \in Handlers}
    \cup {[p \in {"handleConstructor"} |-> c] : c \in HandleConstructors}
    \cup {[p \in {"handleStyle"} |-> st] : st \in PartialStyles}

\* props[name]
Prop(bag, name) == IF name \in DOMAIN bag THEN bag[name] ELSE UNDEFINED

\* value === true and value !== false
StrictlyTrue(value) == IF value = "true" THEN "true" ELSE "false"
NotFalse(value) == IF value = "false" THEN "false" ELSE "true"

\* The transform options a Transformer has when it is constructed with none.
CreatedInstance ==
  [f \in Flags |-> IF f \in {"rotateEnabled", "scaleEnabled", "translateEnabled",
                             "transientGroupTilt"}
                   THEN "true" ELSE "false"]

\* The values applyProps assigns to the transform options of the instance.
AssignedFlags(newProps) ==
  [f \in Flags |->
     IF f \in {"boxScalingEnabled", "boxRotationEnabled", "skewEnabled"}
     THEN StrictlyTrue(Prop(newProps, f))
     ELSE IF f \in {"rotateEnabled", "scaleEnabled", "translateEnabled"}
     THEN NotFalse(Prop(newProps, f))
     ELSE Prop(newProps, f)]

\* const EMPTY: any = {}
EMPTY == [g \in {} |-> UNDEF]

\* props.handleStyle || EMPTY
HandleStyleOrEmpty(bag) ==
  IF "handleStyle" \in DOMAIN bag THEN bag.handleStyle ELSE EMPTY

\* Whether st[field] is undefined: the field is not there, or is given as undefined.
FieldUndefined(st, field) ==
  \/ field \notin DOMAIN st
  \/ field # "shape" /\ st[field] = UNDEF

\* oldHandleStyle[field] !== newHandleStyle[field]
FieldDiffers(oldStyle, newStyle, field) ==
  IF FieldUndefined(oldStyle, field) \/ FieldUndefined(newStyle, field)
  THEN FieldUndefined(oldStyle, field) # FieldUndefined(newStyle, field)
  ELSE oldStyle[field] # newStyle[field]

\* The fields of the handle style that applyProps compares.
ComparedStyleFields ==
  {"color", "outlineColor", "outlineThickness", "radius", "shape", "rotatorIconColor"}

\* The condition under which applyProps assigns instance.handleStyle = newHandleStyle.
HandleStyleDiffers(oldStyle, newStyle) ==
  \E field \in ComparedStyleFields : FieldDiffers(oldStyle, newStyle, field)

\* applyDefaultProps(instance, oldProps, newProps) of @pixi/react copies every prop
\* that newProps gives to the instance's property of that name; the assignments of
\* applyProps then overwrite the transform options.  Here: instance.handleStyle.
ApplyDefaultProps(inst, newProps) ==
  IF "handleStyle" \in DOMAIN newProps THEN newProps.handleStyle ELSE inst.handleStyle

\* The style props of the component: each is an object that applyProps compares field
\* by field with the one applied last.
StyleProps == {"colorTheme", "handleStyle", "wireframeStyle"}

\* props[name] || EMPTY
PropOrEmpty(bag, name) == IF name \in DOMAIN bag THEN bag[name] ELSE EMPTY

\* applyDefaultProps for the style prop name: instance[name] is the prop when newProps
\* gives it, and is left alone otherwise.
DefaultAssigned(inst, newProps, name) ==
  IF name \in DOMAIN newProps THEN newProps[name] ELSE inst[name]

\* The fields of the color theme and of the wireframe style that applyProps compares.
ComparedThemeFields == {"primary", "secondary", "background", "glow", "glowIntensity"}
ComparedWireframeFields == {"color", "thickness"}

\* The condition under which applyProps assigns instance.colorTheme = newColorTheme.
ColorThemeDiffers(oldTheme, newTheme) ==
  \E field \in ComparedThemeFields : FieldDiffers(oldTheme, newTheme, field)

\* The condition under which applyProps assigns instance.wireframeStyle.
WireframeStyleDiffers(oldStyle, newStyle) ==
  \E field \in ComparedWireframeFields : FieldDiffers(oldStyle, newStyle, field)

\* instance.colorTheme after applyProps.
AssignedColorTheme(inst, oldProps, newProps, threw) ==
  IF ~threw /\ ColorThemeDiffers(PropOrEmpty(oldProps, "colorTheme"),
                                 PropOrEmpty(newProps, "colorTheme"))
  THEN PropOrEmpty(newProps, "colorTheme")
  ELSE DefaultAssigned(inst, newProps, "colorTheme")

\* instance.wireframeStyle after applyProps.
AssignedWireframeStyle(inst, oldProps, newProps, threw) ==
  IF ~threw /\ WireframeStyleDiffers(PropOrEmpty(oldProps, "wireframeStyle"),
                                     PropOrEmpty(newProps, "wireframeStyle"))
  THEN PropOrEmpty(newProps, "wireframeStyle")
  ELSE DefaultAssigned(inst, newProps, "wireframeStyle")

\* The assignments of theme and styles that applyProps itself makes behind the throw,
\* in the order of the code: colorTheme, then handleStyle, then wireframeStyle, each
\* only when its compared fields differ.
ExplicitAssignments(oldProps, newProps, threw) ==
  IF threw THEN <<>>
  ELSE (IF ColorThemeDiffers(PropOrEmpty(oldProps, "colorTheme"),
                             PropOrEmpty(newProps, "colorTheme"))
        THEN <<"colorTheme">> ELSE <<>>)
       \o (IF HandleStyleDiffers(HandleStyleOrEmpty(oldProps), HandleStyleOrEmpty(newProps))
           THEN <<"handleStyle">> ELSE <<>>)
       \o (IF WireframeStyleDiffers(PropOrEmpty(oldProps, "wireframeStyle"),
                                    PropOrEmpty(newProps, "wireframeStyle"))
           THEN <<"wireframeStyle">> ELSE <<>>)

\* instance.handleStyle after applyProps: the explicit assignment is behind the throw.
AssignedHandleStyle(inst, oldProps, newProps, threw) ==
  IF ~threw /\ HandleStyleDiffers(HandleStyleOrEmpty(oldProps), HandleStyleOrEmpty(newProps))
  THEN HandleStyleOrEmpty(newProps)
  ELSE ApplyDefaultProps(inst, newProps)

\* applyEventProps(instance, events, oldProps, newProps): for every handler prop of
\* events whose value changed, the old handler stops listening to the prop's event and
\* the new one starts.
ApplyEventProps(subs, events, oldProps, newProps) ==
  [e \in EventNames |->
     LET changed == {n \in DOMAIN events :
                       events[n] = e /\ Prop(oldProps, n) # Prop(newProps, n)}
     IN (subs[e] \ {Prop(oldProps, n) : n \in changed})
          \cup ({Prop(newProps, n) : n \in changed} \ {UNDEFINED})]

\* Mutant: applyProps never rejects a handle constructor.
ThrowsNever(oldProps, newProps) == FALSE

\* if (oldProps.handleConstructor !== newProps.handleConstructor) throw
Throws(oldProps, newProps) ==
  Prop(oldProps, "handleConstructor") # Prop(newProps, "handleConstructor")

NoApply ==
  [called |-> FALSE, oldProps |-> NoProps, newProps |-> NoProps, threw |-> FALSE,
   assigned |-> <<>>]

\* The component as create() leaves it, before the first applyProps: no props applied
\* (the first applyProps gets {} as oldProps) and nothing listening.
Created ==
  /\ props = NoProps
  /\ instance = [f \in Flags \cup StyleProps |->
                   IF f \in Flags THEN CreatedInstance[f] ELSE EMPTY]
  /\ subscribed = [e \in EventNames |-> {}]
  /\ lastApply = NoApply

\* applyProps(instance, oldProps, newProps), oldProps being the props applied last.  An
\* error it throws ends the component: no further props are applied.
ApplyProps(newProps) ==
  LET oldProps == props
      threw == Throws(oldProps, newProps)
  IN /\ ~lastApply.threw
     /\ subscribed' = ApplyEventProps(subscribed, HANDLER_TO_EVENT, oldProps, newProps)
     /\ instance' = [f \in Flags \cup StyleProps |->
                      IF f \in Flags THEN AssignedFlags(newProps)[f]
                      ELSE IF f = "colorTheme"
                        THEN AssignedColorTheme(instance, oldProps, newProps, threw)
                      ELSE IF f = "handleStyle"
                        THEN AssignedHandleStyle(instance, oldProps, newProps, threw)
                      ELSE AssignedWireframeStyle(instance, oldProps, newProps, threw)]
     /\ props' = IF threw THEN oldProps ELSE newProps
     /\ lastApply' = [called |-> TRUE, oldProps |-> oldProps, newProps |-> newProps,
                      threw |-> threw,
                      assigned |-> ExplicitAssignments(oldProps, newProps, threw)]
     /\ UNCHANGED <<pointerVars, renderVars, hookVars>>

\* ------------------------------------------------------------------ construction

\* The appearance fields the constructor sets for handle names and style options
\* given per handle; the static texture cache is empty.  The call recorded is the
\* construction of the observed handle.
ConstructedAppearance(names, styleOpts) ==
  /\ handle = names
  /\ style = [h \in HandleObjs |-> MergeStyle(styleOpts[h])]
  /\ dirty = [h \in HandleObjs |-> TRUE]
  /\ rotatorSprite = [h \in HandleObjs |-> NoSprite]
  /\ rotatorKey = [h \in HandleObjs |-> NoKey]
  /\ children = [h \in HandleObjs |-> <<>>]
  /\ rotatorTextureCache = [k \in {} |-> NoSprite.texture]
  /\ lastOp = [h \in HandleObjs |-> "new"]
  /\ lastCall = [NoCall EXCEPT !.op = "new", !.handle = Observed,
                               !.value = styleOpts[Observed]]

\* Two handles of one transformer, constructed with the default style.
\* No component and no hook are in use: their variables keep these values.
ReactIdle ==
  /\ Mount(<<>>, NoHookOptions)
  /\ Created

Init ==
  /\ ConstructedPointer
  /\ ReactIdle
  /\ ConstructedAppearance([h \in HandleObjs |-> IF h = Observed THEN "topLeft"
                                                  ELSE "rotator"],
                           [h \in HandleObjs |-> NoStyleOpts])

\* The observed handle constructed with any name and any partial style.
InitRender ==
  /\ ConstructedPointer
  /\ ReactIdle
  /\ stage = NULL
  /\ \E name \in HandleNames, opts \in PartialStyles :
       ConstructedAppearance([h \in HandleObjs |-> IF h = Observed THEN name
                                                     ELSE "rotator"],
                             [h \in HandleObjs |-> IF h = Observed THEN opts
                                                     ELSE NoStyleOpts])

\* ------------------------------------------------------------------ specifications

\* The pointer events of one handle.
PointerEvent(h) ==
  \/ OnPointerDown(h)
  \/ \E type \in {"pointermove", "globalpointermove"}, global \in GlobalPositions :
       OnPointerMove(h, type, global)
  \/ \E type \in {"pointerup", "pointerupoutside"} : OnPointerUp(h, type)

\* One handle receives pointer events while the stage changes.
Next ==
  \/ \E s \in Stages \cup {NULL} : SetStage(s)
  \/ PointerEvent(Observed)

Spec == Init /\ [][Next]_vars

\* Every handle of the transformer receives pointer events, in any interleaving.
NextMulti ==
  \/ \E s \in Stages \cup {NULL} : SetStage(s)
  \/ \E h \in HandleObjs : PointerEvent(h)

SpecMulti == Init /\ [][NextMulti]_vars

\* One handle is pressed and released while the pointer moves, over it or elsewhere.
NextPhysical ==
  \/ \E s \in Stages \cup {NULL} : SetStage(s)
  \/ OnPointerDown(Observed)
  \/ \E global \in GlobalPositions, over \in BOOLEAN : PointerMoved(Observed, global, over)
  \/ \E type \in {"pointerup", "pointerupoutside"} : OnPointerUp(Observed, type)

SpecPhysical == Init /\ [][NextPhysical]_vars

\* The appearance operations of one handle: assignments and renders.
NextRender ==
  \/ \E name \in HandleNames : SetHandle(Observed, name)
  \/ \E value \in PartialStyles : SetStyle(Observed, value)
  \/ Render(Observed)

SpecRender == InitRender /\ [][NextRender]_vars

\* The partial styles that give a field of the rotator texture key.
KeyStyles == {v \in PartialStyles : DOMAIN v \subseteq {"outlineColor", "radius", "rotatorIconColor"}}

\* Two rotator handles, as of two transformers, constructed with the default style.
InitCache ==
  /\ ConstructedPointer
  /\ ReactIdle
  /\ stage = NULL
  /\ ConstructedAppearance([h \in HandleObjs |-> "rotator"],
                           [h \in HandleObjs |-> NoStyleOpts])

\* The rotator handles are restyled and redrawn in any interleaving.
NextCache ==
  \/ \E h \in HandleObjs, value \in KeyStyles : SetStyle(h, value)
  \/ \E h \in HandleObjs : Render(h)

SpecCache == InitCache /\ [][NextCache]_vars

\* The handles of a transformer nobody touches.
IdleHandles ==
  /\ ConstructedPointer
  /\ stage = NULL
  /\ ConstructedAppearance([h \in HandleObjs |-> "rotator"],
                           [h \in HandleObjs |-> NoStyleOpts])

\* The hook mounted with any group and any options.
InitHook ==
  /\ IdleHandles
  /\ Created
  /\ \E g \in Groups, options \in HookOptions : Mount(g, options)

\* The component re-renders with other groups, the transformer's notifications reach
\* the hook's handlers and the hook's controls are called, in any order.
NextHook ==
  \/ \E g \in Groups : SetGroup(g)
  \/ \E index \in Indices, element \in Elements \cup {NULL} :
       HandleFocusChange(index, element)
  \/ \E index \in Indices, element \in Elements : HandleElementFocused(element, index)
  \/ HandleElementFocusCleared
  \/ \E index \in Indices : SetFocusedElementIndex(index)
  \/ \E index \in Indices : FocusElement(index)
  \/ FocusNextElement
  \/ FocusPreviousElement
  \/ ClearFocus

SpecHook == InitHook /\ [][NextHook]_vars

\* The component created, before its first applyProps.
InitProps ==
  /\ IdleHandles
  /\ Mount(<<>>, NoHookOptions)
  /\ Created

\* The component is rendered with props again and again.
NextProps == \E newProps \in PropBags : ApplyProps(newProps)

SpecProps == InitProps /\ [][NextProps]_vars

\* Color themes, handle styles and wireframe styles a parent passes.
Themes == {[g \in {"primary"} |-> Indigo], [g \in {"primary", "glow"} |-> White]}
ThemeHandleStyles == {[g \in {"color"} |-> White], [g \in {"color"} |-> Indigo]}
ThemeWireframeStyles == {[g \in {"color"} |-> White], [g \in {"color"} |-> Indigo]}
StyleValues ==
  [colorTheme |-> Themes, handleStyle |-> ThemeHandleStyles,
   wireframeStyle |-> ThemeWireframeStyles]

\* The props that give any of the theme and the two styles.
ThemeBags ==
  UNION {{bag \in [D -> Themes \cup ThemeHandleStyles \cup ThemeWireframeStyles] :
            \A name \in D : bag[name] \in StyleValues[name]} : D \in SUBSET StyleProps}

\* The component is rendered with themes and styles again and again.
NextTheme == \E newProps \in ThemeBags : ApplyProps(newProps)

SpecTheme == InitProps /\ [][NextTheme]_vars

\* ------------------------------------------------------------------ properties

MoveEventTypes == {"pointermove", "globalpointermove"}
UpEventTypes == {"pointerup", "pointerupoutside"}

\* The operations of hist[i], hist[i+1], ... are those of ops.
HistHas(i, ops) ==
  /\ i >= 1
  /\ i + Len(ops) - 1 <= Len(hist)
  /\ \A k \in 1..Len(ops) : hist[i + k - 1].op = ops[k]

\* The last events of the observed handle are those of ops.
HistEndsWith(ops) == HistHas(Len(hist) - Len(ops) + 1, ops)

\* C1 First-move-no-delta: when a handle that is Up receives pointer-down, move, move
\* (each move one delivery of a move event to onPointerMove), the pointer-down and the first move invoke no delta callback and the second move
\* invokes it exactly once; the first move finds the handle not dragging and leaves it
\* Dragging with the event's position recorded.
FirstMoveNoDelta ==
  /\ \A i \in 1..Len(hist) :
       (HistHas(i, <<"down", "move", "move">>) /\ ~hist[i].wasDown) =>
         /\ hist[i].deltas = 0
         /\ hist[i + 1].deltas = 0
         /\ hist[i + 2].deltas = 1
         /\ ~hist[i + 1].wasDragging
         /\ hist[i + 2].wasDragging
  /\ (/\ HistEndsWith(<<"down", "move">>)
      /\ lastEvent.type \in MoveEventTypes
      /\ lastEvent.handle = Observed) =>
         /\ lastEvent.deltaCalls = <<>>
         /\ pointerDragging[Observed]
         /\ pointerPosition[Observed] = lastEvent.global

FirstMoveNoDeltaWitness ==
  /\ HistEndsWith(<<"down", "move", "move">>)
  /\ ~hist[Len(hist) - 2].wasDown
  /\ hist[Len(hist)].deltas = 1
  /\ lastEvent.deltaCalls = <<lastEvent.global>>

\* C2 Commit-once: pointer-down, move, move, pointer-up invokes onCommit exactly once,
\* in the pointer-up; no pointer-down and no move ever invokes onCommit, and a
\* pointer-up or pointer-up-outside invokes it at most once.
CommitOnce ==
  /\ \A i \in 1..Len(hist) :
       /\ hist[i].op \in {"down", "move"} => hist[i].commits = 0
       /\ hist[i].op = "up" => hist[i].commits <= 1
       /\ HistHas(i, <<"down", "move", "move", "up">>) =>
            /\ hist[i].commits + hist[i + 1].commits + hist[i + 2].commits = 0
            /\ hist[i + 3].commits = 1
  /\ lastEvent.type \in MoveEventTypes \cup {"pointerdown"} => lastEvent.commitCalls = 0
  /\ lastEvent.type \in UpEventTypes => lastEvent.commitCalls <= 1

CommitOnceWitness ==
  /\ HistEndsWith(<<"down", "move", "move", "up">>)
  /\ lastEvent.type = "pointerupoutside"
  /\ lastEvent.commitCalls = 1

\* C3 While a handle is Dragging, a move event invokes onDelta exactly once, with the
\* event's global position itself, records that position and stops the propagation of
\* the event.
DragMoveReportsPosition ==
  [][\A h \in HandleObjs :
       (/\ pointerDragging[h]
        /\ lastEvent'.type \in MoveEventTypes
        /\ lastEvent'.handle = h) =>
         /\ lastEvent'.deltaCalls = <<lastEvent'.global>>
         /\ lastEvent'.propagationStopped
         /\ pointerPosition'[h] = lastEvent'.global
         /\ pointerDragging'[h]]_vars

DragMoveReportsPositionWitness ==
  /\ HistEndsWith(<<"move", "move", "move">>)
  /\ hist[Len(hist) - 1].wasDragging
  /\ hist[Len(hist)].deltas = 1
  /\ lastEvent.type = "globalpointermove"
  /\ lastEvent.deltaCalls = <<lastEvent.global>>
  /\ lastEvent.propagationStopped

\* C4 A click: pointer-down followed by pointer-up or pointer-up-outside with no move
\* in between invokes neither callback, and leaves the handle Up with no registration
\* of its move handler on any target.
ClickDoesNothing ==
  \A i \in 1..Len(hist) :
    HistHas(i, <<"down", "up">>) =>
      /\ hist[i].deltas = 0 /\ hist[i].commits = 0
      /\ hist[i + 1].deltas = 0 /\ hist[i + 1].commits = 0
      /\ (i + 1 = Len(hist)) =>
           /\ ~pointerDown[Observed]
           /\ ~pointerDragging[Observed]
           /\ pointerMoveTarget[Observed] = NULL
           /\ SubscribedTargets(Observed) = {}

ClickDoesNothingWitness ==
  /\ HistEndsWith(<<"down", "up">>)
  /\ lastEvent.type \in UpEventTypes
  /\ stage # NULL

\* C5 After a pointer-down the handle is down and not dragging, the propagation of the
\* event is stopped, and the handle's move handler is registered exactly once, on the
\* transformer's stage, or on the handle itself when the transformer has no stage, so
\* that a globalpointermove reaches it.
PointerDownSubscribes ==
  lastEvent.type = "pointerdown" =>
    LET h == lastEvent.handle
        target == IF stage # NULL THEN stage ELSE h
    IN /\ pointerDown[h]
       /\ ~pointerDragging[h]
       /\ lastEvent.propagationStopped
       /\ pointerMoveTarget[h] = target
       /\ listeners[target][h] = 1
       /\ SubscribedTargets(h) = {target}
       /\ "globalpointermove" \in MoveTypes(h)

PointerDownSubscribesWitness ==
  /\ lastEvent.type = "pointerdown"
  /\ stage = "stageB"
  /\ listeners["stageB"][Observed] = 1
  /\ HistEndsWith(<<"down", "down">>)

\* C6 A drag has no cancel path: whenever a handle stops Dragging, the event is a
\* pointer-up or pointer-up-outside of that handle and it invokes onCommit once.
NoCancelPath ==
  [][\A h \in HandleObjs :
       (pointerDragging[h] /\ ~pointerDragging'[h]) =>
         /\ lastEvent'.type \in UpEventTypes
         /\ lastEvent'.handle = h
         /\ lastEvent'.commitCalls = 1]_vars

\* C7 A pointer-down received by a handle that is Dragging is ignored: the dragging
\* flag, the recorded position and target and the registrations stay as they were.
SecondDownIgnored ==
  [][\A h \in HandleObjs :
       (/\ pointerDragging[h]
        /\ lastEvent'.type = "pointerdown"
        /\ lastEvent'.handle = h) =>
         /\ pointerDragging'[h]
         /\ pointerPosition'[h] = pointerPosition[h]
         /\ pointerMoveTarget'[h] = pointerMoveTarget[h]
         /\ listeners' = listeners]_vars

\* C8 Single interaction at a time: at most one handle of the transformer is pressed
\* or Dragging.
SingleInteraction ==
  Cardinality({h \in HandleObjs : pointerDown[h] \/ pointerDragging[h]}) <= 1

\* C9 Idempotent render: a render of a handle whose last appearance operation was a
\* render does not run draw(): it issues no command, creates no texture, adds and
\* removes no sprite, and leaves the texture cache and the handle's sprite and children
\* as they were.
IdempotentRender ==
  [][\A h \in HandleObjs :
       (/\ lastOp[h] = "render"
        /\ lastCall'.op = "render"
        /\ lastCall'.handle = h) =>
         /\ ~lastCall'.drew
         /\ lastCall'.commands = <<>>
         /\ lastCall'.texturesCreated = 0
         /\ lastCall'.spritesAdded = 0
         /\ lastCall'.spritesRemoved = 0
         /\ rotatorTextureCache' = rotatorTextureCache
         /\ rotatorSprite'[h] = rotatorSprite[h]
         /\ rotatorKey'[h] = rotatorKey[h]
         /\ children'[h] = children[h]]_vars

IdempotentRenderWitness ==
  /\ lastCall.op = "render"
  /\ lastCall.previous = "render"
  /\ lastCall.handle = Observed
  /\ handle[Observed] = "rotator"
  /\ rotatorSprite[Observed] # NoSprite
  /\ lastCall.commands = <<>>

\* C10 A handle is dirty from its construction and from every assignment to style or
\* to handle until the next render, and clean from a render until the next assignment:
\* a render runs draw() exactly when the operation before it was not a render.
MutationMarksDirty ==
  /\ \A h \in HandleObjs :
       /\ lastOp[h] \in {"new", "style", "handle"} => dirty[h]
       /\ lastOp[h] = "render" => ~dirty[h]
  /\ lastCall.op = "render" =>
       /\ lastCall.drew <=> lastCall.previous \in {"new", "style", "handle"}
       /\ lastCall.drew => (Len(lastCall.commands) >= 1 /\ lastCall.commands[1] = Clear)
       /\ ~lastCall.drew => lastCall.commands = <<>>

MutationMarksDirtyWitness ==
  /\ lastCall.op = "render"
  /\ lastCall.previous = "style"
  /\ lastCall.drew
  /\ lastCall.handle = Observed
  /\ ~dirty[Observed]

\* C11 The style of a handle after its construction with, or after the assignment of, a
\* partial style S is the default style with exactly the fields of S replaced: a field
\* absent from S has its default value whatever the style was before.
StyleMergesOntoDefaults ==
  lastCall.op \in {"new", "style"} =>
    \A f \in StyleFields :
      style[lastCall.handle][f] =
        IF f \in DOMAIN lastCall.value THEN lastCall.value[f]
        ELSE DEFAULT_HANDLE_STYLE[f]

\* A radius alone is assigned to a handle right after another style assignment, and
\* every other field reads as its default.
StyleMergesOntoDefaultsWitness ==
  /\ lastCall.op = "style"
  /\ lastCall.previous = "style"
  /\ DOMAIN lastCall.value = {"radius"}
  /\ lastCall.value.radius = 72
  /\ style[Observed] = [DEFAULT_HANDLE_STYLE EXCEPT !.radius = 72]

\* C12 The rotator texture cache is create-once per key and shared by all handles: a
\* redraw creates a texture only for a key that has no entry, and then exactly one; an
\* entry is never removed or replaced; and every handle that has a rotator sprite uses
\* the cache's texture of its key.
TextureCacheCreateOnce ==
  [][/\ \A k \in DOMAIN rotatorTextureCache :
          /\ k \in DOMAIN rotatorTextureCache'
          /\ rotatorTextureCache'[k] = rotatorTextureCache[k]
     /\ Cardinality(DOMAIN rotatorTextureCache') =
          Cardinality(DOMAIN rotatorTextureCache) + lastCall'.texturesCreated
     /\ lastCall'.texturesCreated \in {0, 1}
     /\ lastCall'.texturesCreated = 1 =>
          /\ rotatorKey'[lastCall'.handle] \notin DOMAIN rotatorTextureCache
          /\ rotatorKey'[lastCall'.handle] \in DOMAIN rotatorTextureCache'
     /\ \A h \in HandleObjs :
          rotatorSprite'[h] # NoSprite =>
            /\ rotatorKey'[h] \in DOMAIN rotatorTextureCache'
            /\ rotatorSprite'[h].texture = rotatorTextureCache'[rotatorKey'[h]]]_vars

\* The second handle is drawn with a key the first one created the texture of, while
\* the cache holds another key's texture too.
TextureCacheCreateOnceWitness ==
  /\ lastCall.op = "render"
  /\ lastCall.drew
  /\ lastCall.texturesCreated = 0
  /\ lastCall.spritesAdded = 1
  /\ Cardinality(DOMAIN rotatorTextureCache) >= 2
  /\ rotatorKey["h1"] = rotatorKey["h2"]
  /\ rotatorSprite["h1"] # NoSprite
  /\ rotatorSprite["h1"].texture = rotatorSprite["h2"].texture

\* The programmatic focus controls of the nested-selection state.
ControlOps == {"focusElement", "focusNextElement", "focusPreviousElement", "clearFocus"}

\* C13 Focus invariant, for the programmatic controls alone: a control applied to a
\* non-empty group whose focused index is in [0, group.length) leaves the focused index
\* in [0, group.length); an attempt to clear the focus does not leave -1.
FocusStaysInGroup ==
  (/\ lastHook.op \in ControlOps
   /\ Len(group) > 0
   /\ lastHook.indexBefore \in 0..(Len(group) - 1)) =>
     focusedElementIndex \in 0..(Len(group) - 1)

\* C15 as stated: the state of a hook mounted with a non-empty group has index 0 and
\* element group[0]; mounted with an empty group it has index -1 and no element.
MountFocusesFirst ==
  lastHook.op = "mount" =>
    IF Len(group) > 0
    THEN focusedElementIndex = 0 /\ focusedElement = group[1]
    ELSE focusedElementIndex = -1 /\ focusedElement = NULL

\* C15 amended: the state of a hook mounted with a non-empty group has the index given
\* as initialFocusIndex, 0 when none is given, and the group's element at that index,
\* none when the index is outside the group; mounted with an empty group it has index
\* -1 and no element.
MountFocusesInitialIndex ==
  lastHook.op = "mount" =>
    LET given == IF "initialFocusIndex" \in DOMAIN hookOptions
                 THEN hookOptions.initialFocusIndex ELSE 0
        expected == IF given \in 0..(Len(group) - 1) THEN group[given + 1] ELSE NULL
    IN
    IF Len(group) > 0
    THEN /\ focusedElementIndex = given
         /\ focusedElement = expected
         /\ lastHook.elementBefore = expected
    ELSE /\ focusedElementIndex = -1
         /\ focusedElement = NULL
         /\ lastHook.elementBefore = NULL

\* A hook mounted without options on a group of two focuses the first element.
MountFocusesInitialIndexWitness ==
  /\ lastHook.op = "mount"
  /\ hookOptions = NoHookOptions
  /\ Len(group) = 2
  /\ focusedElementIndex = 0
  /\ focusedElement = group[1]

\* C16 When the hook is rendered with another group that is not empty, the focused
\* index is 0 afterwards.
GroupChangeResetsFocus ==
  (/\ lastHook.op = "setGroup"
   /\ group # lastHook.groupBefore
   /\ Len(group) > 0) =>
     focusedElementIndex = 0

\* C17 focusElement(i) with i outside [0, group.length) leaves the focused index and
\* the focused element as they were; with i inside it sets the focused index to i.
FocusElementChecksRange ==
  lastHook.op = "focusElement" =>
    IF lastHook.index \in 0..(Len(group) - 1)
    THEN focusedElementIndex = lastHook.index
    ELSE /\ focusedElementIndex = lastHook.indexBefore
         /\ focusedElement = lastHook.elementBefore

\* focusElement is called with the length of a non-empty group while an element is
\* focused, and the focus stays.
FocusElementChecksRangeWitness ==
  /\ lastHook.op = "focusElement"
  /\ Len(group) > 0
  /\ lastHook.index = Len(group)
  /\ focusedElementIndex \in 0..(Len(group) - 1)
  /\ focusedElement = group[focusedElementIndex + 1]

\* C14 applyProps throws exactly when the handleConstructor of oldProps differs from
\* the one of newProps, a prop that is not given counting as undefined.
HandleConstructorChangeThrows ==
  lastApply.called =>
    LET old == IF "handleConstructor" \in DOMAIN lastApply.oldProps
               THEN lastApply.oldProps.handleConstructor ELSE UNDEFINED
        new == IF "handleConstructor" \in DOMAIN lastApply.newProps
               THEN lastApply.newProps.handleConstructor ELSE UNDEFINED
    IN lastApply.threw <=> old # new

\* applyProps threw for props that give a handle constructor the props before did not.
HandleConstructorChangeThrowsWitness ==
  /\ lastApply.called
  /\ lastApply.threw
  /\ "handleConstructor" \in DOMAIN lastApply.newProps
  /\ "handleConstructor" \notin DOMAIN lastApply.oldProps

\* C18 After applyProps, the handler given as a handler prop, be it transformchange,
\* transformcommit, elementfocused, elementfocuscleared or onFocusChange, is the one
\* listener of the instance's notification of that name, and a notification whose prop
\* is not given has no listener.
HandlerPropsSubscribed ==
  lastApply.called =>
    \A n \in HandlerProps :
      subscribed[n] = IF n \in DOMAIN lastApply.newProps THEN {lastApply.newProps[n]}
                      ELSE {}

\* The options the transformer documents as off and as on by default.
DefaultOff == {"boxRotationEnabled", "boxScalingEnabled", "centeredScaling", "skewEnabled"}
DefaultOn == {"rotateEnabled", "scaleEnabled", "translateEnabled"}

\* C19 After applyProps, every transform option whose prop is not given has its
\* documented default on the instance, whatever the props before were.
OmittedOptionsDefault ==
  lastApply.called =>
    /\ \A f \in DefaultOff : f \notin DOMAIN lastApply.newProps => instance[f] = "false"
    /\ \A f \in DefaultOn : f \notin DOMAIN lastApply.newProps => instance[f] = "true"

\* C20 After applyProps with no transientGroupTilt prop, the instance's
\* transientGroupTilt is true.
OmittedTiltDefault ==
  (lastApply.called /\ "transientGroupTilt" \notin DOMAIN lastApply.newProps) =>
    instance.transientGroupTilt = "true"

\* C21 Whenever a field of the handleStyle prop differs between oldProps and newProps
\* and applyProps does not throw, the instance's handleStyle afterwards is the
\* handleStyle of newProps (the empty style when newProps gives none).
HandleStyleChangeApplied ==
  (/\ lastApply.called
   /\ ~lastApply.threw
   /\ \E field \in StyleFields :
        FieldDiffers(HandleStyleOrEmpty(lastApply.oldProps),
                     HandleStyleOrEmpty(lastApply.newProps), field)) =>
     instance.handleStyle = HandleStyleOrEmpty(lastApply.newProps)

\* The commands of a draw that issue a shape, and those that start a fill.
ShapeOps(commands) ==
  {commands[i].op : i \in {j \in DOMAIN commands :
                             commands[j].op \in {"drawCircle", "drawRoundedRect"}}}
Fills(commands) == {i \in DOMAIN commands : commands[i].op = "beginFill"}

\* The last operation was a render of h that ran draw().
Drew(h) == lastCall.op = "render" /\ lastCall.handle = h /\ lastCall.drew

\* C22 A redraw of a handle whose identity is rotator issues no glow shape, whatever
\* the style: it issues clear() and nothing else.
RotatorHasNoGlow ==
  \A h \in HandleObjs :
    (Drew(h) /\ handle[h] = "rotator") =>
      /\ lastCall.commands = <<Clear>>
      /\ Fills(lastCall.commands) = {}
      /\ ShapeOps(lastCall.commands) = {}

\* A rotator whose style has a glow color and a glow intensity of 0.5 was redrawn.
RotatorHasNoGlowWitness ==
  /\ Drew(Observed)
  /\ handle[Observed] = "rotator"
  /\ style[Observed].glowColor = Indigo
  /\ style[Observed].glowIntensity = 50
  /\ rotatorSprite[Observed] # NoSprite

\* The glow of a draw: three filled shapes right after clear(), before the body's five
\* commands.
GlowDrawn(commands) ==
  /\ Len(commands) = 15
  /\ \A i \in {2, 5, 8} :
       /\ commands[i].op = "beginFill"
       /\ commands[i].alpha < 1000
       /\ commands[i + 1].op \in {"drawCircle", "drawRoundedRect"}
       /\ commands[i + 2].op = "endFill"
  /\ commands[11].op = "beginFill"
  /\ commands[11].alpha = 1000

\* C23 A redraw of a handle that is not the rotator, with any glow color given as a
\* number, draws the glow shapes, before the handle body, exactly when the glow
\* intensity of its style is greater than 0.
GlowIffIntensityPositive ==
  \A h \in HandleObjs :
    (Drew(h) /\ handle[h] # "rotator" /\ style[h].glowColor # UNDEF) =>
      (GlowDrawn(lastCall.commands) <=> style[h].glowIntensity > 0)

BodyFilledWithStyleColor ==
  \A h \in HandleObjs :
    (Drew(h) /\ handle[h] # "rotator") =>
      \E i \in Fills(lastCall.commands) :
        /\ \A j \in Fills(lastCall.commands) : j <= i
        /\ lastCall.commands[i].color = style[h].color

\* C26 After a pointer-up or a pointer-up-outside, whatever the state before it, the
\* handle is Up: not down, not dragging, with no recorded move target and no
\* registration for global pointer moves on any target.
UpEndsInUp ==
  \A h \in HandleObjs :
    (lastEvent.type \in UpEventTypes /\ lastEvent.handle = h) =>
      /\ ~pointerDown[h]
      /\ ~pointerDragging[h]
      /\ pointerMoveTarget[h] = NULL
      /\ SubscribedTargets(h) = {}

\* A pointer-up-outside ended a drag.
UpEndsInUpWitness ==
  /\ lastEvent.type = "pointerupoutside"
  /\ lastEvent.handle = Observed
  /\ HistEndsWith(<<"down", "move", "up">>)
  /\ hist[Len(hist)].wasDown
  /\ hist[Len(hist)].wasDragging
  /\ ~pointerDown[Observed]

\* C27 In every reachable state of a handle: dragging implies down; the handle has a
\* recorded move target exactly when it is down; and its move handler is registered
\* for global pointer moves on at most one target, once, that target being the
\* recorded one.
PointerStateConsistent ==
  \A h \in HandleObjs :
    /\ pointerDragging[h] => pointerDown[h]
    /\ pointerMoveTarget[h] # NULL <=> pointerDown[h]
    /\ Cardinality(SubscribedTargets(h)) <= 1
    /\ SubscribedTargets(h) \subseteq {pointerMoveTarget[h]}
    /\ pointerDown[h] => listeners[pointerMoveTarget[h]][h] = 1

\* The handle is dragging after a second pointer-down, and the stage was replaced since
\* the listener was added.
PointerStateConsistentWitness ==
  /\ HistEndsWith(<<"down", "down", "move">>)
  /\ pointerDragging[Observed]
  /\ stage \in Stages
  /\ pointerMoveTarget[Observed] \in Stages \ {stage}
  /\ SubscribedTargets(Observed) = {pointerMoveTarget[Observed]}

\* C29 The global-move listener is removed from the target it was added to, also when
\* the stage was replaced or cleared in between: no target holds a listener of a handle
\* that is not down, a handle that is down has none on any target but the recorded one,
\* and the target a pointer-up or pointer-down removed the listener from holds none
\* afterwards, unless the pointer-down added it there again.
ListenerRemovedWhereAdded ==
  \A h \in HandleObjs :
    /\ ~pointerDown[h] => \A t \in Targets : listeners[t][h] = 0
    /\ pointerDown[h] => \A t \in Targets \ {pointerMoveTarget[h]} : listeners[t][h] = 0
    /\ (/\ lastEvent.handle = h
        /\ lastEvent.type \in UpEventTypes \cup {"pointerdown"}
        /\ lastEvent.removedFrom # NULL) =>
          listeners[lastEvent.removedFrom][h] =
            IF lastEvent.type = "pointerdown" /\ pointerMoveTarget[h] = lastEvent.removedFrom
            THEN 1 ELSE 0

\* A pointer-up removed the listener from the stage that was current at the
\* pointer-down, after the stage had been replaced.
ListenerRemovedWhereAddedWitness ==
  /\ lastEvent.type = "pointerup"
  /\ lastEvent.handle = Observed
  /\ lastEvent.removedFrom = "stageA"
  /\ stage = "stageB"
  /\ HistEndsWith(<<"down", "up">>)
  /\ \A t \in Targets : listeners[t][Observed] = 0

\* C30 A move event delivered to a handle that is not down changes nothing: no callback
\* is invoked, the down and dragging flags and the recorded pointer position stay as
\* they are, and the propagation of the event is not stopped.
MoveWhileUpChangesNothing ==
  [][\A h \in HandleObjs, type \in MoveEventTypes, global \in GlobalPositions :
       (OnPointerMove(h, type, global) /\ ~pointerDown[h]) =>
         /\ lastEvent'.deltaCalls = <<>>
         /\ lastEvent'.commitCalls = 0
         /\ ~lastEvent'.propagationStopped
         /\ pointerDown'[h] = pointerDown[h]
         /\ pointerDragging'[h] = pointerDragging[h]
         /\ pointerPosition'[h] = pointerPosition[h]
         /\ listeners' = listeners]_vars

\* A move reached the handle after its drag had ended, at another position than the
\* recorded one.
MoveWhileUpChangesNothingWitness ==
  /\ HistEndsWith(<<"down", "move", "up", "move">>)
  /\ lastEvent.type \in MoveEventTypes
  /\ lastEvent.handle = Observed
  /\ ~pointerDown[Observed]
  /\ ~pointerDragging[Observed]
  /\ ~lastEvent.propagationStopped
  /\ pointerPosition[Observed] # lastEvent.global
  /\ pointerPosition[Observed] # Point0

\* C28 One move of the pointer is processed by a pressed handle at most once: it
\* invokes the delta callback at most once, and not at all when it is the move that
\* finds the handle not dragging and establishes the origin.
PhysicalMoveCountsOnce ==
  (/\ HistEndsWith(<<"physicalmove">>)
   /\ lastEvent.type = "physicalmove"
   /\ hist[Len(hist)].wasDown) =>
     /\ Len(lastEvent.deltaCalls) <= 1
     /\ ~hist[Len(hist)].wasDragging => lastEvent.deltaCalls = <<>>

\* C31 When an applyProps call that follows an earlier one throws because the handle
\* constructor changed, the instance is as it was before the call: its transform
\* options and its handle style are unchanged.
ThrowLeavesInstance ==
  [][(lastApply.called /\ ~lastApply.threw /\ lastApply'.threw) =>
       instance' = instance]_vars

\* C32 The first applyProps call after create, whose oldProps are empty, does not
\* throw when its props give a handleConstructor.
FirstHandleConstructorAccepted ==
  [][(/\ ~lastApply.called
      /\ lastApply'.called
      /\ lastApply'.oldProps = NoProps
      /\ "handleConstructor" \in DOMAIN lastApply'.newProps) =>
       ~lastApply'.threw]_vars

\* C33 Explicit style props win over theme-derived values: in every applyProps call that
\* assigns colorTheme to the instance, each of handleStyle and wireframeStyle that
\* newProps carries is assigned after the theme in that call, also when the style prop
\* is the same in oldProps and newProps.
StylesAssignedAfterTheme ==
  (lastApply.called /\ ~lastApply.threw) =>
    \A i \in DOMAIN lastApply.assigned :
      lastApply.assigned[i] = "colorTheme" =>
        \A name \in {"handleStyle", "wireframeStyle"} \cap DOMAIN lastApply.newProps :
          \E j \in DOMAIN lastApply.assigned :
            j > i /\ lastApply.assigned[j] = name

\* C34 All visual elements of an edge handle scale together from the radius: in every
\* redraw of an edge-midpoint handle with a glow, the pill is 20 x 10 (topCenter,
\* bottomCenter) or 10 x 20 (middleLeft, middleRight) times radius / 7, and the
\* innermost glow rectangle has the width, height and corner radius of the pill.
EdgeGlowMatchesPill ==
  \A h \in HandleObjs :
    (Drew(h) /\ handle[h] \in EdgeHandles /\ GlowDrawn(lastCall.commands)) =>
      LET pill == lastCall.commands[12]
          innermost == lastCall.commands[3]
          r == BaseRadius(style[h])
          isVertical == handle[h] \in {"topCenter", "bottomCenter"}
      IN /\ pill.w = (IF isVertical THEN 120 ELSE 60) * r
         /\ pill.h = (IF isVertical THEN 60 ELSE 120) * r
         /\ innermost.w = pill.w
         /\ innermost.h = pill.h
         /\ innermost.r = pill.r

\* A step that redraws handle h: render() found it dirty and called draw().
Redraws(h) == dirty[h] /\ ~dirty'[h]

\* C35 Over any sequence of assignments and renders a handle has at most one icon
\* sprite child, and its recorded key is set exactly when it has a sprite.  A redraw of
\* a rotator whose key equals the recorded key keeps the sprite: none is added, none
\* removed.  A redraw with a different key removes the old sprite from the children
\* and adds exactly one new sprite.
RotatorSpriteReplacedOnKeyChange ==
  [][\A h \in HandleObjs :
       /\ Len(children'[h]) <= 1
       /\ (rotatorKey'[h] # NoKey) <=> (rotatorSprite'[h] # NoSprite)
       /\ rotatorSprite'[h] # NoSprite => children'[h] = <<rotatorSprite'[h]>>
       /\ (Redraws(h) /\ handle[h] = "rotator" /\ rotatorSprite[h] # NoSprite) =>
            IF RotatorKeyOf(style[h]) = rotatorKey[h]
            THEN /\ lastCall'.spritesAdded = 0
                 /\ lastCall'.spritesRemoved = 0
                 /\ rotatorKey'[h] = rotatorKey[h]
                 /\ rotatorSprite'[h].texture = rotatorSprite[h].texture
            ELSE /\ lastCall'.spritesAdded = 1
                 /\ lastCall'.spritesRemoved = 1
                 /\ rotatorKey'[h] = RotatorKeyOf(style[h])
                 /\ rotatorSprite'[h] # rotatorSprite[h]
                 /\ \A i \in DOMAIN children'[h] : children'[h][i] # rotatorSprite[h]]_vars

\* A rotator that had a sprite was restyled and redrawn with another key: the old
\* sprite was removed and one new sprite added.
RotatorSpriteReplacedOnKeyChangeWitness ==
  /\ Drew(Observed)
  /\ handle[Observed] = "rotator"
  /\ lastCall.spritesRemoved = 1
  /\ lastCall.spritesAdded = 1
  /\ Len(children[Observed]) = 1

\* C36 A handle shows the rotator icon sprite only while its identity is rotator: after
\* a redraw of a handle whose identity is not rotator, the handle has no icon sprite
\* child.
SpriteOnlyWhileRotator ==
  \A h \in HandleObjs :
    (Drew(h) /\ handle[h] # "rotator") =>
      /\ rotatorSprite[h] = NoSprite
      /\ children[h] = <<>>

MismatchedHandlerCall ==
  /\ lastHook.op \in {"onFocusChange", "elementfocused"}
  /\ lastHook.element # ElementAt(lastHook.groupBefore, lastHook.index)

====
